---------------------------- MODULE Spec2Model ----------------------------
(***************************************************************************)
(* Model of TextureData<T> (src/src/texture.rs): a flat pixel buffer of    *)
(* `depth` layers, each holding `mipmaps` levels, with the index           *)
(* arithmetic of its accessors, the box filter of generate_mipmaps, the    *)
(* tile copy of parse_tileset and the byte view handed to the device;      *)
(* of the older TextureData and load_texture of src/src/main.rs; and of    *)
(* the event-loop closure of run (src/src/framework.rs).                   *)
(*                                                                         *)
(* Spec     one buffer built, written and filtered                         *)
(* SpecFn   one function applied once to one input                         *)
(* SpecPar  generate_mipmaps with its per-layer runs interleaved           *)
(* SpecMain load_texture of main.rs                                        *)
(* SpecLoop the closure of run called with events in any order             *)
(*                                                                         *)
(* u32 values are modelled by naturals below 2^31; the inputs are chosen   *)
(* so that no sum or product of the code reaches 2^31, hence no u32        *)
(* addition or multiplication wraps in a modelled state.  The one u32      *)
(* operation whose overflow is modelled is the shift `1 << level`.         *)
(*                                                                         *)
(* `debug` is the build profile: TRUE for a build with debug assertions    *)
(* and overflow checks (cargo's dev profile), FALSE for a build without    *)
(* them (cargo's release profile).                                         *)
(***************************************************************************)
EXTENDS Integers, Sequences, FiniteSets, TLC

VARIABLES debug,    \* build profile: debug_assertions / overflow-checks
          status,   \* "start", "built" or "panic"
          tex,      \* the TextureData value
          policy,   \* the MipMaps argument tex was constructed with
          image,    \* the decoded source image of parse_tileset
          reads,    \* source-image coordinates read by parse_tileset
          last,     \* the last operation performed and its arguments
          nwrites,  \* number of caller writes through get_pixel_mut so far
          call,     \* SpecFn: the pure function applied and its result
          gen,      \* SpecPar: the per-layer runs of generate_mipmaps
          loop,     \* SpecLoop: the locals of framework::run and its clock
          game      \* SpecMain: the tileset, level and placement buffer of init

vars == <<debug, status, tex, policy, image, reads, last, nwrites, call, gen, loop,
          game>>

-----------------------------------------------------------------------------
(* Bounds of the model *)

MaxDim == 3         \* width and height of new range over 0..MaxDim
MaxDepth == 2       \* depth of new ranges over 0..MaxDepth
MaxExplicit == 2    \* n of MipMaps::Some(n) ranges over 0..MaxExplicit
MaxWrites == 1      \* caller writes through get_pixel_mut per run
MaxImage == 4       \* source image width and height range over 1..MaxImage
MaxTile == 2        \* tile_w and tile_h range over 0..MaxTile
MaxLevelArg == 33   \* level arguments of SpecFn range over 0..MaxLevelArg
MaxMainTile == 3    \* tile width and height of load_texture range over 0..MaxMainTile
MaxParDim == 4      \* SpecPar: width and height range over 0..MaxParDim
MaxParDepth == 2    \* SpecPar: depth ranges over 0..MaxParDepth
MaxClock == 3       \* SpecLoop: the clock advances up to MaxClock
MaxCells == 2        \* init: the level grid has 1..MaxCells columns and rows
MaxPlaced == 2      \* init: at most MaxPlaced cells of the level hold a tile

-----------------------------------------------------------------------------
(* Arithmetic helpers *)

Max(a, b) == IF a >= b THEN a ELSE b

\* the element of a singleton set; used to bind an intermediate value once
The(S) == CHOOSE r \in S : TRUE

RECURSIVE Pow2(_)
Pow2(k) == IF k = 0 THEN 1 ELSE 2 * Pow2(k - 1)

\* floor(log2(n)) of a positive integer, exactly
RECURSIVE FloorLog2(_)
FloorLog2(n) == IF n <= 1 THEN 0 ELSE 1 + FloorLog2(n \div 2)

\* n / 2^sh for a u32 n < 2^31 and a shift count 0..31 (2^31 itself is
\* not representable here; n < 2^31 makes the quotient 0)
DivPow2(n, sh) == IF sh >= 31 THEN 0 ELSE n \div Pow2(sh)

-----------------------------------------------------------------------------
(* Pixels: [u8; 4] *)

Zeroed == <<0, 0, 0, 0>>

\* values a caller writes
Palette == { <<255, 3, 128, 6>>, <<1, 1, 1, 1>> }

\* average(pixels): per channel, the u32 sum divided by the number of
\* pixels, truncating
average(ps) ==
    [i \in 1..4 |-> ((ps[1][i] + ps[2][i] + ps[3][i] + ps[4][i]) \div Len(ps)) % 256]

-----------------------------------------------------------------------------
(* MipMaps policy *)

MipNone == [kind |-> "None", levels |-> 0]
MipSome(n) == [kind |-> "Some", levels |-> n]
MipAll == [kind |-> "All", levels |-> 0]

-----------------------------------------------------------------------------
(* Static size functions *)

\* `x as f32`: round to nearest, ties to even, on a 24-bit significand.
\* The result is the (integer) value of the f32.
U32AsF32(n) ==
    IF n < 16777216 THEN n
    ELSE LET sh   == FloorLog2(n) - 23
             unit == Pow2(sh)
             q    == n \div unit
             r    == n % unit
             half == unit \div 2
             up   == r > half \/ (r = half /\ q % 2 = 1)
         IN  (IF up THEN q + 1 ELSE q) * unit

\* max_mapmap_levels: 1 + floor(log2(max(width, height) as f32)) as u32.
\* log2(0.0) is -inf, floor keeps it, and `as u32` saturates it to 0.
\* f32::log2 is taken as exact on the f32 value.
max_mapmap_levels(width, height) ==
    LET f == U32AsF32(Max(width, height))
    IN  IF f = 0 THEN 1 ELSE 1 + FloorLog2(f)

\* `1 << level` on u32 overflows for level >= 32: an overflow-checked build
\* panics, an unchecked build shifts by level mod 32.
shl_overflow(level) == level >= 32

\* mipmaped_size: (width / (1 << level)).max(1), with the unchecked build's
\* shift; a checked build panics first when shl_overflow(level).
MipmapedSizeNoClamp(width, level) == DivPow2(width, level % 32)

mipmaped_size(width, level) == Max(DivPow2(width, level % 32), 1)

\* size_per_layer: sum over i in 0..levels of the level's pixel count
RECURSIVE SizePerLayerSum(_, _, _)
SizePerLayerSum(width, height, levels) ==
    IF levels <= 0 THEN 0
    ELSE SizePerLayerSum(width, height, levels - 1)
         + mipmaped_size(width, levels - 1) * mipmaped_size(height, levels - 1)

size_per_layer(width, height, levels) == SizePerLayerSum(width, height, levels)

-----------------------------------------------------------------------------
(* Construction *)

NoDivisor == [some |-> FALSE, val |-> 0]
SomeDivisor(n) == [some |-> TRUE, val |-> n]

\* the level count chosen by new (the match on the policy); ok = FALSE is
\* the failed debug_assert!, which exists only in a debug build
NewMipmaps(width, height, mips, dbg) ==
    CASE mips.kind = "None" -> [ok |-> TRUE, val |-> 1]
      [] mips.kind = "Some" ->
            IF dbg /\ ~(1 <= mips.levels /\ mips.levels < max_mapmap_levels(width, height))
            THEN [ok |-> FALSE, val |-> 0]
            ELSE [ok |-> TRUE, val |-> mips.levels]
      [] OTHER -> [ok |-> TRUE, val |-> max_mapmap_levels(width, height)]

\* the length of the vec! allocated by new
PixelsLenNoDepth(width, height, depth, mipmaps) == size_per_layer(width, height, mipmaps)

pixels_len(width, height, depth, mipmaps) == size_per_layer(width, height, mipmaps) * depth

\* new panics in a checked build when the debug_assert! fails or when a
\* level of size_per_layer overflows the shift
NewPanics(width, height, mips, dbg) ==
    LET m == NewMipmaps(width, height, mips, dbg)
    IN  \/ ~m.ok
        \/ dbg /\ m.val > 0 /\ shl_overflow(m.val - 1)

PanicTex == [width |-> 0, height |-> 0, depth |-> 0, mipmaps |-> 0,
             depth_divisor |-> NoDivisor, pixels |-> [i \in {} |-> Zeroed]]

NewUnzeroed(width, height, depth, mips, dbg) ==
    IF NewPanics(width, height, mips, dbg)
    THEN [ok |-> FALSE, tex |-> PanicTex]
    ELSE LET m == NewMipmaps(width, height, mips, dbg).val
         IN  [ok |-> TRUE,
              tex |-> [width |-> width, height |-> height, depth |-> depth,
                       mipmaps |-> m, depth_divisor |-> NoDivisor,
                       pixels |-> [i \in 0..(pixels_len(width, height, depth, m) - 1) |->
                                     IF i = 0 THEN Zeroed ELSE <<1, 1, 1, 1>>]]]

new(width, height, depth, mips, dbg) ==
    IF NewPanics(width, height, mips, dbg)
    THEN [ok |-> FALSE, tex |-> PanicTex]
    ELSE LET m == NewMipmaps(width, height, mips, dbg).val
         IN  [ok |-> TRUE,
              tex |-> [width |-> width, height |-> height, depth |-> depth,
                       mipmaps |-> m, depth_divisor |-> NoDivisor,
                       pixels |-> [i \in 0..(pixels_len(width, height, depth, m) - 1) |-> Zeroed]]]

-----------------------------------------------------------------------------
(* Accessors *)

PixLen(t) == Cardinality(DOMAIN t.pixels)

mipmapped_width(t, mipmap) == mipmaped_size(t.width, mipmap)

mipmapped_height(t, mipmap) == mipmaped_size(t.height, mipmap)

depth_x(t) == t.depth_divisor

\* depth / dd: integer division, which panics on dd = 0 in every build
depth_y(t) ==
    IF ~t.depth_divisor.some THEN [ok |-> TRUE, some |-> FALSE, val |-> 0]
    ELSE IF t.depth_divisor.val = 0 THEN [ok |-> FALSE, some |-> FALSE, val |-> 0]
    ELSE [ok |-> TRUE, some |-> TRUE, val |-> t.depth \div t.depth_divisor.val]

layer_size(t) == size_per_layer(t.width, t.height, t.mipmaps)

\* A slice of the buffer: off and len; ok = FALSE is a panic (a failed
\* debug_assert! in a debug build, or a slice range out of bounds in any build)
PanicSlice == [ok |-> FALSE, off |-> 0, len |-> 0]

get_layer_mut(t, layer, dbg) ==
    IF dbg /\ ~(layer < t.depth) THEN PanicSlice
    ELSE IF (layer + 1) * layer_size(t) > PixLen(t) THEN PanicSlice
    ELSE [ok |-> TRUE, off |-> layer * layer_size(t), len |-> layer_size(t)]

GetLayerStrideOne(t, layer, dbg) ==
    IF dbg /\ ~(layer < t.depth) THEN PanicSlice
    ELSE IF (layer + 1) * layer_size(t) > PixLen(t) THEN PanicSlice
    ELSE [ok |-> TRUE, off |-> layer, len |-> layer_size(t)]

get_layer(t, layer, dbg) ==
    IF dbg /\ ~(layer < t.depth) THEN PanicSlice
    ELSE IF (layer + 1) * layer_size(t) > PixLen(t) THEN PanicSlice
    ELSE [ok |-> TRUE, off |-> layer * layer_size(t), len |-> layer_size(t)]

get_mipmap_mut(t, layer, mipmap, dbg) ==
    IF dbg /\ ~(mipmap < t.mipmaps) THEN PanicSlice
    ELSE IF dbg /\ shl_overflow(mipmap) THEN PanicSlice
    ELSE LET start == size_per_layer(t.width, t.height, mipmap + 0)
             end   == size_per_layer(t.width, t.height, mipmap + 1)
             L     == get_layer_mut(t, layer, dbg)
         IN  IF ~L.ok \/ start > end \/ end > L.len THEN PanicSlice
             ELSE [ok |-> TRUE, off |-> L.off + start, len |-> end - start]

GetMipmapFromLayerStart(t, layer, mipmap, dbg) ==
    IF dbg /\ ~(mipmap < t.mipmaps) THEN PanicSlice
    ELSE IF dbg /\ shl_overflow(mipmap) THEN PanicSlice
    ELSE LET start == size_per_layer(t.width, t.height, mipmap + 0)
             end   == size_per_layer(t.width, t.height, mipmap + 1)
             L     == get_layer(t, layer, dbg)
         IN  IF ~L.ok \/ start > end \/ end > L.len THEN PanicSlice
             ELSE [ok |-> TRUE, off |-> L.off, len |-> end - start]

get_mipmap(t, layer, mipmap, dbg) ==
    IF dbg /\ ~(mipmap < t.mipmaps) THEN PanicSlice
    ELSE IF dbg /\ shl_overflow(mipmap) THEN PanicSlice
    ELSE LET start == size_per_layer(t.width, t.height, mipmap + 0)
             end   == size_per_layer(t.width, t.height, mipmap + 1)
             L     == get_layer(t, layer, dbg)
         IN  IF ~L.ok \/ start > end \/ end > L.len THEN PanicSlice
             ELSE [ok |-> TRUE, off |-> L.off + start, len |-> end - start]

\* The element addressed: idx is its position in the buffer
PanicIdx == [ok |-> FALSE, idx |-> 0]

GetPixelMutColumnMajor(t, x, y, layer, mipmap, dbg) ==
    IF dbg /\ (shl_overflow(mipmap)
               \/ ~(x < mipmapped_width(t, mipmap) /\ y < mipmapped_height(t, mipmap)))
    THEN PanicIdx
    ELSE LET index == y + x * mipmapped_height(t, mipmap)
             M     == get_mipmap_mut(t, layer, mipmap, dbg)
         IN  IF ~M.ok \/ index >= M.len THEN PanicIdx
             ELSE [ok |-> TRUE, idx |-> M.off + index]

GetPixelMutIgnoreLayer(t, x, y, layer, mipmap, dbg) ==
    IF dbg /\ (shl_overflow(mipmap)
               \/ ~(x < mipmapped_width(t, mipmap) /\ y < mipmapped_height(t, mipmap)))
    THEN PanicIdx
    ELSE LET index == x + y * mipmapped_width(t, mipmap)
             M     == get_mipmap_mut(t, 0, mipmap, dbg)
         IN  IF ~M.ok \/ index >= M.len THEN PanicIdx
             ELSE [ok |-> TRUE, idx |-> M.off + index]

GetPixelMutNoRowStride(t, x, y, layer, mipmap, dbg) ==
    IF dbg /\ (shl_overflow(mipmap)
               \/ ~(x < mipmapped_width(t, mipmap) /\ y < mipmapped_height(t, mipmap)))
    THEN PanicIdx
    ELSE LET index == x + y
             M     == get_mipmap_mut(t, layer, mipmap, dbg)
         IN  IF ~M.ok \/ index >= M.len THEN PanicIdx
             ELSE [ok |-> TRUE, idx |-> M.off + index]

get_pixel_mut(t, x, y, layer, mipmap, dbg) ==
    IF dbg /\ (shl_overflow(mipmap)
               \/ ~(x < mipmapped_width(t, mipmap) /\ y < mipmapped_height(t, mipmap)))
    THEN PanicIdx
    ELSE LET index == x + y * mipmapped_width(t, mipmap)
             M     == get_mipmap_mut(t, layer, mipmap, dbg)
         IN  IF ~M.ok \/ index >= M.len THEN PanicIdx
             ELSE [ok |-> TRUE, idx |-> M.off + index]

get_pixel(t, x, y, layer, mipmap, dbg) ==
    IF dbg /\ (shl_overflow(mipmap)
               \/ ~(x < mipmapped_width(t, mipmap) /\ y < mipmapped_height(t, mipmap)))
    THEN PanicIdx
    ELSE LET index == x + y * mipmapped_width(t, mipmap)
             M     == get_mipmap(t, layer, mipmap, dbg)
         IN  IF ~M.ok \/ index >= M.len THEN PanicIdx
             ELSE [ok |-> TRUE, idx |-> M.off + index]

-----------------------------------------------------------------------------
(* The byte view and the upload.  A pixel of type T is held as the sequence *)
(* of its size_of::<T>() bytes in memory order.                             *)

\* bytemuck::cast_slice::<T, u8>: the bytes of the slice, element after
\* element.  u8 has alignment 1, so the alignment check passes; equal sizes
\* succeed; otherwise a cast between a zero-sized and a sized type fails,
\* and cast_slice panics on failure; a sized T always fills whole bytes.
cast_slice(a, n, size_of_T) ==
    LET bytes == [k \in 1..(n * size_of_T) |->
                    a[(k - 1) \div size_of_T][((k - 1) % size_of_T) + 1]]
    IN  IF size_of_T = 1 THEN [ok |-> TRUE, val |-> bytes]
        ELSE IF size_of_T = 0 THEN [ok |-> FALSE, val |-> <<>>]
        ELSE [ok |-> TRUE, val |-> bytes]

AsBytesReversed(t, size_of_T) ==
    LET r == cast_slice(t.pixels, PixLen(t), size_of_T)
    IN  [ok |-> r.ok, val |-> [k \in 1..Len(r.val) |-> r.val[Len(r.val) + 1 - k]]]

as_bytes(t, size_of_T) == cast_slice(t.pixels, PixLen(t), size_of_T)

\* to_texture: the descriptor and the data handed to
\* device.create_texture_with_data; ok = FALSE when as_bytes panics
ToTextureBaseLevelOnly(t, size_of_T) ==
    LET b == as_bytes(t, size_of_T)
    IN  [ok |-> b.ok,
         desc |-> [width |-> t.width, height |-> t.height, depth |-> t.depth,
                   mip_level_count |-> 1, sample_count |-> 1,
                   dimension |-> "D2", label |-> "tile_set_texture"],
         data |-> b.val]

to_texture(t, size_of_T) ==
    LET b == as_bytes(t, size_of_T)
    IN  [ok |-> b.ok,
         desc |-> [width |-> t.width, height |-> t.height, depth |-> t.depth,
                   mip_level_count |-> t.mipmaps, sample_count |-> 1,
                   dimension |-> "D2", label |-> "tile_set_texture"],
         data |-> b.val]

-----------------------------------------------------------------------------
(* generate_mipmaps *)

InLevel(t, x, y, mipmap) ==
    x < mipmapped_width(t, mipmap) /\ y < mipmapped_height(t, mipmap)

\* the four source coordinates read for destination (x, y), in the order
\* of the array literal
Sources(x, y) ==
    << <<2 * x + 0, 2 * y + 0>>, <<2 * x + 1, 2 * y + 0>>,
       <<2 * x + 1, 2 * y + 1>>, <<2 * x + 0, 2 * y + 1>> >>

\* the body of the innermost loop: four get_pixel reads at mipmap - 1, the
\* average, and the write through get_pixel_mut.  oor records that a source
\* coordinate lay outside level mipmap - 1.
GenPixel(t, x, y, layer, mipmap, dbg) ==
    LET src == Sources(x, y)
        r   == [k \in 1..4 |-> get_pixel(t, src[k][1], src[k][2], layer, mipmap - 1, dbg)]
        w   == get_pixel_mut(t, x, y, layer, mipmap, dbg)
        oor == \E k \in 1..4 : ~InLevel(t, src[k][1], src[k][2], mipmap - 1)
    IN  IF (\E k \in 1..4 : ~r[k].ok) \/ ~w.ok
        THEN [ok |-> FALSE, tex |-> t, oor |-> oor]
        ELSE [ok |-> TRUE,
              tex |-> [t EXCEPT !.pixels[w.idx] =
                          average([k \in 1..4 |-> t.pixels[r[k].idx]])],
              oor |-> oor]

\* the loops over y and x of one level: the j-th iteration has
\* y = j / width and x = j % width of the level
RECURSIVE GenPixels(_, _, _, _, _, _)
GenPixels(t, layer, mipmap, j, oor, dbg) ==
    IF j >= mipmapped_width(t, mipmap) * mipmapped_height(t, mipmap)
    THEN [ok |-> TRUE, tex |-> t, oor |-> oor]
    ELSE The({ IF ~g.ok THEN [ok |-> FALSE, tex |-> g.tex, oor |-> oor \/ g.oor]
                ELSE GenPixels(g.tex, layer, mipmap, j + 1, oor \/ g.oor, dbg) :
                g \in {GenPixel(t, j % mipmapped_width(t, mipmap),
                                j \div mipmapped_width(t, mipmap), layer, mipmap, dbg)} })

\* the loop over mipmap in 1..mipmaps of one layer
RECURSIVE GenLevels(_, _, _, _, _)
GenLevels(t, layer, mipmap, oor, dbg) ==
    IF mipmap >= t.mipmaps THEN [ok |-> TRUE, tex |-> t, oor |-> oor]
    ELSE IF dbg /\ shl_overflow(mipmap) THEN [ok |-> FALSE, tex |-> t, oor |-> oor]
    ELSE The({ IF ~r.ok THEN r ELSE GenLevels(r.tex, layer, mipmap + 1, r.oor, dbg) :
                r \in {GenPixels(t, layer, mipmap, 0, oor, dbg)} })

\* the loop over layer in 0..depth
RECURSIVE GenLayers(_, _, _, _)
GenLayers(t, layer, oor, dbg) ==
    IF layer >= t.depth THEN [ok |-> TRUE, tex |-> t, oor |-> oor]
    ELSE The({ IF ~r.ok THEN r ELSE GenLayers(r.tex, layer + 1, r.oor, dbg) :
                r \in {GenLevels(t, layer, 1, oor, dbg)} })

generate_mipmaps(t, dbg) == GenLayers(t, 0, FALSE, dbg)

-----------------------------------------------------------------------------
(* parse_tileset *)

ImageSeeds == {0, 201}

\* a decoded image: every pixel differs from its neighbours
DecodedImage(W, H, seed) ==
    [width |-> W, height |-> H,
     pixels |-> [c \in (0..(W - 1)) \X (0..(H - 1)) |->
                   <<(40 * c[1] + seed) % 256, (60 * c[2] + 7) % 256,
                     ((c[1] + 4 * c[2]) * 16) % 256, 255>>]]

NoImage == [width |-> 0, height |-> 0, pixels |-> [c \in {} |-> Zeroed]]

\* image.get_pixel(x, y): panics outside the image
ImageInBounds(img, x, y) == x < img.width /\ y < img.height

\* the layer of the tile at grid position (x, y)
TileLayer(expand_x, expand_y, x, y) == x + expand_x * y

\* the inner loop over (px, py) of one tile: the j-th iteration has
\* py = j / tile_w and px = j % tile_w; p holds the values fixed during the
\* loops, rd collects the source coordinates read
RECURSIVE CopyTile(_, _, _, _, _, _)
CopyTile(t, p, gx, gy, j, rd) ==
    IF j >= p.tile_w * p.tile_h THEN [ok |-> TRUE, tex |-> t, reads |-> rd]
    ELSE LET px == j % p.tile_w
             py == j \div p.tile_w
             sx == gx * p.tile_w + px
             sy == gy * p.tile_h + py
             i  == TileLayer(p.expand_x, p.expand_y, gx, gy)
         IN  The({ IF ~ImageInBounds(p.image, sx, sy) \/ ~w.ok
                   THEN [ok |-> FALSE, tex |-> t, reads |-> rd \cup {<<sx, sy>>}]
                   ELSE The({ CopyTile(t2, p, gx, gy, j + 1, rd \cup {<<sx, sy>>}) :
                              t2 \in {[t EXCEPT !.pixels[w.idx] =
                                                 p.image.pixels[<<sx, sy>>]]} }) :
                   w \in {get_pixel_mut(t, px, py, i, 0, p.dbg)} })

\* the outer loop over the grid: the k-th iteration has y = k / expand_x
\* and x = k % expand_x
RECURSIVE CopyTiles(_, _, _, _)
CopyTiles(t, p, k, rd) ==
    IF k >= p.expand_x * p.expand_y THEN [ok |-> TRUE, tex |-> t, reads |-> rd]
    ELSE The({ IF ~c.ok THEN c ELSE CopyTiles(c.tex, p, k + 1, c.reads) :
                c \in {CopyTile(t, p, k % p.expand_x, k \div p.expand_x, 0, rd)} })

ExpandCeil(size, tile) == (size + tile - 1) \div tile

Expand(size, tile) == size \div tile

\* parse_tileset on a decoded image; ok = FALSE is a panic
parse_tileset(img, tile_w, tile_h, dbg) ==
    IF tile_w = 0 \/ tile_h = 0
    THEN [ok |-> FALSE, tex |-> PanicTex, reads |-> {}, oor |-> FALSE]
    ELSE LET expand_x == Expand(img.width, tile_w)
             expand_y == Expand(img.height, tile_h)
             n == new(tile_w, tile_h, expand_x * expand_y, MipAll, dbg)
         IN  IF ~n.ok THEN [ok |-> FALSE, tex |-> PanicTex, reads |-> {}, oor |-> FALSE]
             ELSE The({ The({ IF ~c.ok
                              THEN [ok |-> FALSE, tex |-> c.tex, reads |-> c.reads,
                                    oor |-> FALSE]
                              ELSE The({ [ok |-> g.ok, tex |-> g.tex, reads |-> c.reads,
                                          oor |-> g.oor] :
                                         g \in {generate_mipmaps(c.tex, dbg)} }) :
                              c \in {CopyTiles(t0, [image |-> img, tile_w |-> tile_w,
                                                    tile_h |-> tile_h, expand_x |-> expand_x,
                                                    expand_y |-> expand_y, dbg |-> dbg],
                                               0, {})} }) :
                        t0 \in {[n.tex EXCEPT !.depth_divisor = SomeDivisor(expand_x)]} })

-----------------------------------------------------------------------------
(* The program: one TextureData value, built by new or parse_tileset, then   *)
(* written through get_pixel_mut and filtered by generate_mipmaps            *)

Policies == {MipNone, MipAll} \cup {MipSome(n) : n \in 0..MaxExplicit}

NoOp == [op |-> "none", x |-> 0, y |-> 0, layer |-> 0, level |-> 0,
         value |-> Zeroed, width |-> 0, height |-> 0, depth |-> 0,
         policy |-> MipNone, tile_w |-> 0, tile_h |-> 0, oor |-> FALSE]

NoDesc == [width |-> 0, height |-> 0, depth |-> 0, mip_level_count |-> 0,
           sample_count |-> 0, dimension |-> "none", label |-> "none"]

NoCall == [fn |-> "none", width |-> 0, height |-> 0, depth |-> 0,
           policy |-> MipNone, level |-> 0, ok |-> TRUE, val |-> 0, len |-> 0,
           size_of_T |-> 0, pixels |-> <<>>, bytes |-> <<>>, desc |-> NoDesc]

NoAccess == [kind |-> "none", layer |-> 0, mipmap |-> 0, idxs |-> {}]

NoGen == [running |-> FALSE, tex0 |-> PanicTex, pc |-> <<>>, acc |-> NoAccess]

\* the locals of run when event_loop.run is entered, the clock read by
\* Instant::now(), and what the last RedrawRequested passed to game.update:
\* away is the time since last_update during which the window was unfocused
\* or the application suspended, dt the duration passed, dt_away the part
\* of dt that elapsed while unfocused or suspended; called tells whether the
\* event just handled called window.request_redraw(), requests counts these
\* calls since the last RedrawRequested handled for display.window
LoopStart ==
    [now |-> 0, last_update |-> 0, is_resumed |-> TRUE, is_focused |-> TRUE,
     is_redraw_requested |-> TRUE, control_flow |-> "Poll", event |-> "none",
     away |-> 0, dt |-> 0, dt_away |-> 0, called |-> FALSE, requests |-> 0]

NoGame ==
    [inited |-> FALSE, rgba8 |-> FALSE, tile_width |-> 0, tile_height |-> 0,
     x_tile |-> 0, grid_cells_x |-> 0, grid_cells_y |-> 0, tiles |-> <<>>,
     pi |-> <<>>]

Init ==
    /\ debug \in BOOLEAN
    /\ status = "start"
    /\ tex = PanicTex
    /\ policy = MipNone
    /\ image = NoImage
    /\ reads = {}
    /\ last = NoOp
    /\ nwrites = 0
    /\ call = NoCall
    /\ gen = NoGen
    /\ loop = LoopStart
    /\ game = NoGame

\* TextureData::new(width, height, depth, mipmaps)
New ==
    /\ status = "start"
    /\ \E width \in 0..MaxDim, height \in 0..MaxDim, depth \in 0..MaxDepth,
          mipmaps \in Policies :
          \E n \in {new(width, height, depth, mipmaps, debug)} :
              /\ status' = IF n.ok THEN "built" ELSE "panic"
              /\ tex' = n.tex
              /\ policy' = mipmaps
              /\ last' = [NoOp EXCEPT !.op = "new", !.width = width,
                                      !.height = height, !.depth = depth,
                                      !.policy = mipmaps]
    /\ UNCHANGED <<debug, image, reads, nwrites, call, gen, loop, game>>

\* TextureData::parse_tileset(path, tile_w, tile_h) on a readable image
ParseTileset ==
    /\ status = "start"
    /\ \E W \in 1..MaxImage, H \in 1..MaxImage, seed \in ImageSeeds,
          tile_w \in 0..MaxTile, tile_h \in 0..MaxTile :
          \E img \in {DecodedImage(W, H, seed)} :
          \E r \in {parse_tileset(img, tile_w, tile_h, debug)} :
              /\ image' = img
              /\ status' = IF r.ok THEN "built" ELSE "panic"
              /\ tex' = r.tex
              /\ policy' = MipAll
              /\ reads' = r.reads
              /\ last' = [NoOp EXCEPT !.op = "parse_tileset", !.tile_w = tile_w,
                                      !.tile_h = tile_h, !.oor = r.oor]
    /\ UNCHANGED <<debug, nwrites, call, gen, loop, game>>

\* parse_tileset when image::open fails: the error is returned, no buffer
ParseTilesetError ==
    /\ status = "start"
    /\ status' = "error"
    /\ last' = [NoOp EXCEPT !.op = "parse_tileset"]
    /\ UNCHANGED <<debug, tex, policy, image, reads, nwrites, call, gen, loop, game>>

\* a caller's `*t.get_pixel_mut(x, y, layer, mipmap) = value`
WritePixel ==
    /\ status = "built"
    /\ nwrites < MaxWrites
    /\ \E x \in 0..MaxDim, y \in 0..MaxDim, layer \in 0..MaxDepth,
          mipmap \in 0..MaxExplicit, value \in Palette :
          \E w \in {get_pixel_mut(tex, x, y, layer, mipmap, debug)} :
              /\ status' = IF w.ok THEN "built" ELSE "panic"
              /\ tex' = IF w.ok THEN [tex EXCEPT !.pixels[w.idx] = value] ELSE tex
              /\ last' = [NoOp EXCEPT !.op = "get_pixel_mut", !.x = x, !.y = y,
                                      !.layer = layer, !.level = mipmap,
                                      !.value = value]
    /\ nwrites' = nwrites + 1
    /\ UNCHANGED <<debug, policy, image, reads, call, gen, loop, game>>

\* a caller's t.generate_mipmaps()
GenerateMipmaps ==
    /\ status = "built"
    /\ last.op # "generate_mipmaps"
    /\ \E g \in {generate_mipmaps(tex, debug)} :
           /\ status' = IF g.ok THEN "built" ELSE "panic"
           /\ tex' = g.tex
           /\ last' = [NoOp EXCEPT !.op = "generate_mipmaps", !.oor = g.oor]
    /\ UNCHANGED <<debug, policy, image, reads, nwrites, call, gen, loop, game>>

Next == New \/ ParseTileset \/ ParseTilesetError \/ WritePixel \/ GenerateMipmaps

Spec == Init /\ [][Next]_vars

-----------------------------------------------------------------------------
(* generate_mipmaps with the body of its loop over the layers run once per *)
(* layer, the runs interleaved at every read and every write of the shared *)
(* buffer.  One run is the loop nest over mipmap, y and x for its layer;   *)
(* the sequential loop is the interleaving that runs them in layer order.  *)

\* a buffer whose every element the caller has written
ParPixel(i) == <<(37 * i + 11) % 256, (101 * i) % 256, i % 256, 255>>

ParPolicies == {MipNone, MipAll, MipSome(2)}

\* the position of one run: the level and the pixel j of the level it is
\* at (y = j / width, x = j % width), whether it is about to read the
\* sources or to write the average, and the average it holds
GenDone == [mipmap |-> 0, j |-> 0, phase |-> "done", val |-> Zeroed]

GenStart(t) ==
    IF 1 < t.mipmaps THEN [mipmap |-> 1, j |-> 0, phase |-> "read", val |-> Zeroed]
    ELSE GenDone

GenAdvance(t, p) ==
    IF p.j + 1 < mipmapped_width(t, p.mipmap) * mipmapped_height(t, p.mipmap)
    THEN [mipmap |-> p.mipmap, j |-> p.j + 1, phase |-> "read", val |-> Zeroed]
    ELSE IF p.mipmap + 1 < t.mipmaps
    THEN [mipmap |-> p.mipmap + 1, j |-> 0, phase |-> "read", val |-> Zeroed]
    ELSE GenDone

InitPar ==
    /\ debug \in BOOLEAN
    /\ status = "built"
    /\ \E width \in 0..MaxParDim, height \in 0..MaxParDim, depth \in 0..MaxParDepth,
          mipmaps \in ParPolicies :
          \E n \in {new(width, height, depth, mipmaps, debug)} :
              /\ n.ok
              /\ tex = [n.tex EXCEPT !.pixels = [i \in DOMAIN n.tex.pixels |-> ParPixel(i)]]
              /\ policy = mipmaps
    /\ image = NoImage
    /\ reads = {}
    /\ last = NoOp
    /\ nwrites = 0
    /\ call = NoCall
    /\ gen = [running |-> TRUE, tex0 |-> tex,
              pc |-> [layer \in 0..(tex.depth - 1) |-> GenStart(tex)],
              acc |-> NoAccess]
    /\ loop = LoopStart
    /\ game = NoGame

\* the four get_pixel reads of one iteration and their average
ReadSources(layer) ==
    /\ status = "built"
    /\ layer \in DOMAIN gen.pc
    /\ gen.pc[layer].phase = "read"
    /\ LET p   == gen.pc[layer]
           x   == p.j % mipmapped_width(tex, p.mipmap)
           y   == p.j \div mipmapped_width(tex, p.mipmap)
           src == Sources(x, y)
           r   == [k \in 1..4 |-> get_pixel(tex, src[k][1], src[k][2], layer,
                                            p.mipmap - 1, debug)]
       IN  /\ status' = IF \A k \in 1..4 : r[k].ok THEN "built" ELSE "panic"
           /\ gen' = [gen EXCEPT
                        !.pc[layer] =
                            IF \A k \in 1..4 : r[k].ok
                            THEN [p EXCEPT !.phase = "write",
                                           !.val = average([k \in 1..4 |->
                                                              tex.pixels[r[k].idx]])]
                            ELSE p,
                        !.acc = [kind |-> "read", layer |-> layer, mipmap |-> p.mipmap,
                                 idxs |-> {r[k].idx : k \in {q \in 1..4 : r[q].ok}}]]
    /\ UNCHANGED <<debug, tex, policy, image, reads, last, nwrites, call, loop, game>>

\* the write of the average through get_pixel_mut, and the loop advance
WriteAverage(layer) ==
    /\ status = "built"
    /\ layer \in DOMAIN gen.pc
    /\ gen.pc[layer].phase = "write"
    /\ LET p == gen.pc[layer]
           x == p.j % mipmapped_width(tex, p.mipmap)
           y == p.j \div mipmapped_width(tex, p.mipmap)
           w == get_pixel_mut(tex, x, y, layer, p.mipmap, debug)
       IN  /\ status' = IF w.ok THEN "built" ELSE "panic"
           /\ tex' = IF w.ok THEN [tex EXCEPT !.pixels[w.idx] = p.val] ELSE tex
           /\ gen' = [gen EXCEPT
                        !.pc[layer] = IF w.ok THEN GenAdvance(tex, p) ELSE p,
                        !.acc = [kind |-> "write", layer |-> layer, mipmap |-> p.mipmap,
                                 idxs |-> IF w.ok THEN {w.idx} ELSE {}]]
    /\ UNCHANGED <<debug, policy, image, reads, last, nwrites, call, loop, game>>

ParRead == \E layer \in 0..(MaxParDepth - 1) : ReadSources(layer)

ParWrite == \E layer \in 0..(MaxParDepth - 1) : WriteAverage(layer)

NextPar == ParRead \/ ParWrite

SpecPar == InitPar /\ [][NextPar]_vars

-----------------------------------------------------------------------------
(* src/src/framework.rs: the closure run passes to event_loop.run, one     *)
(* action per event it is called with.  Events arrive in any order.        *)

\* the first statement of the closure; ControlFlow::Exit is sticky
ControlFlowAtEntry ==
    IF loop.is_resumed /\ loop.is_focused THEN "Poll" ELSE "Wait"

\* the loop is still delivering events
Delivering == loop.control_flow # "Exit"

\* time passes between two events
ClockAdvance ==
    /\ Delivering
    /\ loop.now < MaxClock
    /\ loop' = [loop EXCEPT
                  !.now = @ + 1,
                  !.away = IF loop.is_focused /\ loop.is_resumed THEN @ ELSE @ + 1]
    /\ UNCHANGED <<debug, status, tex, policy, image, reads, last, nwrites, call, gen, game>>

Resumed ==
    /\ Delivering
    /\ loop' = [loop EXCEPT !.control_flow = ControlFlowAtEntry,
                            !.event = "Resumed", !.called = FALSE,
                            !.is_resumed = TRUE]
    /\ UNCHANGED <<debug, status, tex, policy, image, reads, last, nwrites, call, gen, game>>

Suspended ==
    /\ Delivering
    /\ loop' = [loop EXCEPT !.control_flow = ControlFlowAtEntry,
                            !.event = "Suspended", !.called = FALSE,
                            !.is_resumed = FALSE]
    /\ UNCHANGED <<debug, status, tex, policy, image, reads, last, nwrites, call, gen, game>>

\* RedrawRequested for display.window: game.update(&display, dt), the
\* frame, and is_redraw_requested = false
RedrawRequested ==
    /\ Delivering
    /\ loop' = [loop EXCEPT !.control_flow = ControlFlowAtEntry,
                            !.event = "RedrawRequested", !.called = FALSE,
                            !.dt = loop.now - loop.last_update,
                            !.dt_away = loop.away,
                            !.last_update = loop.now,
                            !.away = 0,
                            !.is_redraw_requested = FALSE,
                            !.requests = 0]
    /\ UNCHANGED <<debug, status, tex, policy, image, reads, last, nwrites, call, gen, game>>

\* RedrawRequested for another window
RedrawRequestedOther ==
    /\ Delivering
    /\ loop' = [loop EXCEPT !.control_flow = ControlFlowAtEntry,
                            !.event = "RedrawRequestedOther", !.called = FALSE]
    /\ UNCHANGED <<debug, status, tex, policy, image, reads, last, nwrites, call, gen, game>>

\* MainEventsCleared without the test of is_redraw_requested
MainEventsClearedUnguarded ==
    /\ Delivering
    /\ loop' = IF loop.is_focused /\ loop.is_resumed
               THEN [loop EXCEPT !.control_flow = ControlFlowAtEntry,
                                 !.event = "MainEventsCleared", !.called = TRUE,
                                 !.requests = @ + 1,
                                 !.is_redraw_requested = TRUE]
               ELSE [loop EXCEPT !.control_flow = ControlFlowAtEntry,
                                 !.event = "MainEventsCleared", !.called = FALSE,
                                 !.last_update = loop.now,
                                 !.away = 0]
    /\ UNCHANGED <<debug, status, tex, policy, image, reads, last, nwrites, call, gen, game>>

\* MainEventsCleared: request_redraw when focused, resumed and no redraw is
\* pending, otherwise last_update = Instant::now()
MainEventsCleared ==
    /\ Delivering
    /\ loop' = IF loop.is_focused /\ loop.is_resumed /\ ~loop.is_redraw_requested
               THEN [loop EXCEPT !.control_flow = ControlFlowAtEntry,
                                 !.event = "MainEventsCleared", !.called = TRUE,
                                 !.requests = @ + 1,
                                 !.is_redraw_requested = TRUE]
               ELSE [loop EXCEPT !.control_flow = ControlFlowAtEntry,
                                 !.event = "MainEventsCleared", !.called = FALSE,
                                 !.last_update = loop.now,
                                 !.away = 0]
    /\ UNCHANGED <<debug, status, tex, policy, image, reads, last, nwrites, call, gen, game>>

\* WindowEvent::Focused(f) for display.window
Focused ==
    /\ Delivering
    /\ \E f \in BOOLEAN :
          loop' = [loop EXCEPT !.control_flow = ControlFlowAtEntry,
                               !.event = "Focused", !.called = FALSE,
                               !.is_focused = f]
    /\ UNCHANGED <<debug, status, tex, policy, image, reads, last, nwrites, call, gen, game>>

\* WindowEvent::CloseRequested for display.window
CloseRequested ==
    /\ Delivering
    /\ loop' = [loop EXCEPT !.control_flow = "Exit",
                            !.event = "CloseRequested", !.called = FALSE]
    /\ UNCHANGED <<debug, status, tex, policy, image, reads, last, nwrites, call, gen, game>>

\* WindowEvent::Resized or ScaleFactorChanged for display.window: only the
\* swap chain and the game's projection change
Resized ==
    /\ Delivering
    /\ loop' = [loop EXCEPT !.control_flow = ControlFlowAtEntry,
                            !.event = "Resized", !.called = FALSE]
    /\ UNCHANGED <<debug, status, tex, policy, image, reads, last, nwrites, call, gen, game>>

\* every other event, and a WindowEvent of another window
OtherEvent ==
    /\ Delivering
    /\ loop' = [loop EXCEPT !.control_flow = ControlFlowAtEntry,
                            !.event = "other", !.called = FALSE]
    /\ UNCHANGED <<debug, status, tex, policy, image, reads, last, nwrites, call, gen, game>>

NextLoop ==
    \/ ClockAdvance
    \/ Resumed
    \/ Suspended
    \/ RedrawRequested
    \/ RedrawRequestedOther
    \/ MainEventsCleared
    \/ Focused
    \/ CloseRequested
    \/ Resized
    \/ OtherEvent

SpecLoop == Init /\ [][NextLoop]_vars

-----------------------------------------------------------------------------
(* src/src/main.rs: its own TextureData (one level per layer, checked with *)
(* assert! in every build) and load_texture                                *)

\* TextureData::new(width, height, depth) of main.rs
main_new(width, height, depth) ==
    [width |-> width, height |-> height, depth |-> depth,
     pixels |-> [i \in 0..(width * height * depth - 1) |-> Zeroed]]

\* TextureData::get_layer_mut of main.rs
main_get_layer_mut(t, layer) ==
    IF ~(layer < t.depth) THEN PanicSlice
    ELSE IF (layer + 1) * (t.width * t.height) > PixLen(t) THEN PanicSlice
    ELSE [ok |-> TRUE, off |-> layer * (t.width * t.height),
          len |-> t.width * t.height]

\* TextureData::get_pixel_mut of main.rs: index = x + y * self.height
main_get_pixel_mut(t, x, y, layer) ==
    IF ~(x < t.width /\ y < t.height /\ layer < t.depth) THEN PanicIdx
    ELSE LET index == x + y * t.height
             L     == main_get_layer_mut(t, layer)
         IN  IF ~L.ok \/ index >= L.len THEN PanicIdx
             ELSE [ok |-> TRUE, idx |-> L.off + index]

\* the inner loop of load_texture over (px, py) of one tile: the j-th
\* iteration has py = j / tile_w and px = j % tile_w
RECURSIVE LoadTile(_, _, _, _, _, _)
LoadTile(t, p, gx, gy, j, rd) ==
    IF j >= p.tile_w * p.tile_h THEN [ok |-> TRUE, tex |-> t, reads |-> rd]
    ELSE LET px == j % p.tile_w
             py == j \div p.tile_w
             sx == gx * p.tile_w + px
             sy == gy * p.tile_h + py
             i  == gx + p.expand_x * gy
         IN  The({ IF ~ImageInBounds(p.image, sx, sy) \/ ~w.ok
                   THEN [ok |-> FALSE, tex |-> t, reads |-> rd \cup {<<sx, sy>>}]
                   ELSE The({ LoadTile(t2, p, gx, gy, j + 1, rd \cup {<<sx, sy>>}) :
                              t2 \in {[t EXCEPT !.pixels[w.idx] =
                                                 p.image.pixels[<<sx, sy>>]]} }) :
                   w \in {main_get_pixel_mut(t, px, py, i)} })

\* the outer loop of load_texture over the grid: the k-th iteration has
\* y = k / expand_x and x = k % expand_x
RECURSIVE LoadTiles(_, _, _, _)
LoadTiles(t, p, k, rd) ==
    IF k >= p.expand_x * p.expand_y THEN [ok |-> TRUE, tex |-> t, reads |-> rd]
    ELSE The({ IF ~c.ok THEN c ELSE LoadTiles(c.tex, p, k + 1, c.reads) :
                c \in {LoadTile(t, p, k % p.expand_x, k \div p.expand_x, 0, rd)} })

\* load_texture on a decoded image: the buffer filled, and the descriptor
\* and data handed to create_texture_with_data; ok = FALSE is a panic
load_texture(img, tile_w, tile_h) ==
    IF tile_w = 0 \/ tile_h = 0
    THEN [ok |-> FALSE, tex |-> main_new(0, 0, 0), reads |-> {}, desc |-> NoDesc,
          data |-> <<>>]
    ELSE LET expand_x == img.width \div tile_w
             expand_y == img.height \div tile_h
         IN  The({ IF ~c.ok
                   THEN [ok |-> FALSE, tex |-> c.tex, reads |-> c.reads,
                         desc |-> NoDesc, data |-> <<>>]
                   ELSE [ok |-> TRUE, tex |-> c.tex, reads |-> c.reads,
                         desc |-> [width |-> tile_w, height |-> tile_h,
                                   depth |-> expand_x * expand_y,
                                   mip_level_count |-> 1, sample_count |-> 1,
                                   dimension |-> "D2", label |-> "array_texture"],
                         data |-> cast_slice(c.tex.pixels, PixLen(c.tex), 4).val] :
                   c \in {LoadTiles(main_new(tile_w, tile_h, expand_x * expand_y),
                                    [image |-> img, tile_w |-> tile_w, tile_h |-> tile_h,
                                     expand_x |-> expand_x, expand_y |-> expand_y],
                                    0, {})} })

\* load_texture(device, queue, tileset, base_path) on a readable image
LoadTexture ==
    /\ status = "start"
    /\ \E W \in 1..MaxImage, H \in 1..MaxImage, seed \in ImageSeeds,
          tile_w \in 0..MaxMainTile, tile_h \in 0..MaxMainTile :
          \E img \in {DecodedImage(W, H, seed)} :
          \E r \in {load_texture(img, tile_w, tile_h)} :
              /\ image' = img
              /\ status' = IF r.ok THEN "loaded" ELSE "panic"
              /\ tex' = r.tex
              /\ reads' = r.reads
              /\ last' = [NoOp EXCEPT !.op = "load_texture", !.tile_w = tile_w,
                                      !.tile_h = tile_h]
              /\ call' = [NoCall EXCEPT !.fn = "create_texture_with_data",
                                        !.ok = r.ok, !.size_of_T = 4,
                                        !.desc = r.desc, !.bytes = r.data]
    /\ UNCHANGED <<debug, policy, nwrites, gen, loop, game>>

\* load_texture when image::open fails: the error is returned
LoadTextureError ==
    /\ status = "start"
    /\ status' = "error"
    /\ last' = [NoOp EXCEPT !.op = "load_texture"]
    /\ UNCHANGED <<debug, tex, policy, image, reads, nwrites, call, gen, loop, game>>

\* an f32 greater than zero is m * 2^e with 2^23 <= m < 2^24; a small
\* positive integer converts exactly ("as f32")
RECURSIVE F32Normal(_, _)
F32Normal(m, e) == IF m >= 8388608 THEN [m |-> m, e |-> e]
                   ELSE F32Normal(2 * m, e - 1)

AsF32(n) == F32Normal(n, 0)

\* floor(r * 2^k / d) and its remainder, one quotient bit at a time
RECURSIVE F32LongDiv(_, _, _, _)
F32LongDiv(r, d, k, q) ==
    IF k = 0 THEN [q |-> q, r |-> r]
    ELSE IF 2 * r >= d THEN F32LongDiv(2 * r - d, d, k - 1, 2 * q + 1)
    ELSE F32LongDiv(2 * r, d, k - 1, 2 * q)

\* a / b on f32: the exact quotient rounded to 24 bits, ties to even
F32Div(a, b) ==
    LET k == IF a.m >= b.m THEN 23 ELSE 24
    IN  The({ LET up == 2 * d.r > b.m \/ (2 * d.r = b.m /\ d.q % 2 = 1)
                  m  == IF up THEN d.q + 1 ELSE d.q
              IN  IF m = 16777216 THEN [m |-> 8388608, e |-> a.e - b.e - k + 1]
                  ELSE [m |-> m, e |-> a.e - b.e - k] :
              d \in {F32LongDiv(a.m % b.m, b.m, k, a.m \div b.m)} })

\* f32::round followed by "as i32": the nearest integer, halves away from
\* zero (values of 2^31 and more saturate and are not drawn here)
F32RoundAsI32(a) ==
    IF a.e >= 0 THEN a.m * Pow2(a.e)
    ELSE IF -a.e > 24 THEN 0
    ELSE (a.m + Pow2(-a.e - 1)) \div Pow2(-a.e)

\* tex_scale.x = ts.tile_width as f32 / diffuse_image.width() as f32
tex_scale_x(tile_width, image_width) == F32Div(AsF32(tile_width), AsF32(image_width))

\* x_tile = (1.0 / tex_scale.x).round() as i32
x_tile(tile_width, image_width) ==
    F32RoundAsI32(F32Div(AsF32(1), tex_scale_x(tile_width, image_width)))

\* a tile of layer.unpack(): its cell of the grid and, when a tile is placed
\* there, its coordinates in the tileset
NoCoords == <<>>

\* the loop over layer.unpack(): a placed tile writes
\* (1 + coords.x + x_tile * coords.y) as u16 to the cell of its
\* grid_position; the other tiles write nothing
RECURSIVE PlaceTiles(_, _, _, _, _)
PlaceTiles(pi, tiles, pi_width, xt, k) ==
    IF k > Len(tiles) THEN pi
    ELSE LET tile == tiles[k]
         IN  IF tile.grid_coords = NoCoords
             THEN PlaceTiles(pi, tiles, pi_width, xt, k + 1)
             ELSE PlaceTiles(
                    [pi EXCEPT ![tile.grid_position[1] + tile.grid_position[2] * pi_width]
                                  = (1 + tile.grid_coords[1] + xt * tile.grid_coords[2])
                                    % 65536],
                    tiles, pi_width, xt, k + 1)

\* the placement buffer of init: vec![0u16; pi_width * pi_height] and then
\* the loop over the tiles
placement(tiles, pi_width, pi_height, xt) ==
    PlaceTiles([i \in 0..(pi_width * pi_height - 1) |-> 0], tiles, pi_width, xt, 1)

\* layer.unpack() of a grid of gw x gh cells with the tiles f placed on the
\* cells of its domain: one tile per cell, row by row
Unpack(gw, gh, f) ==
    [k \in 1..(gw * gh) |->
        [grid_position |-> <<(k - 1) % gw, (k - 1) \div gw>>,
         grid_coords   |-> IF (k - 1) \in DOMAIN f THEN f[k - 1] ELSE NoCoords]]

\* Game::init on readable assets whose first layer is a tile layer: the
\* tileset image is opened, load_texture builds the array texture, the loop
\* fills the placement buffer, and as_rgba8().unwrap() panics on an image
\* that was not decoded as RGBA8
GameInit ==
    /\ status = "start"
    /\ \E W \in 1..MaxImage, H \in 1..MaxImage, seed \in ImageSeeds,
          tile_w \in 0..MaxMainTile, tile_h \in 0..MaxMainTile, rgba8 \in BOOLEAN :
          \E img \in {DecodedImage(W, H, seed)} :
          \E r \in {load_texture(img, tile_w, tile_h)} :
              /\ image' = img
              /\ tex' = r.tex
              /\ reads' = r.reads
              /\ last' = [NoOp EXCEPT !.op = "init", !.tile_w = tile_w,
                                      !.tile_h = tile_h]
              /\ call' = [NoCall EXCEPT !.fn = "create_texture_with_data",
                                        !.ok = r.ok, !.size_of_T = 4,
                                        !.desc = r.desc, !.bytes = r.data]
              /\ IF ~r.ok
                 THEN /\ status' = "panic"
                      /\ game' = NoGame
                 ELSE \E gw \in 1..MaxCells, gh \in 1..MaxCells :
                      \E S \in SUBSET (0..(gw * gh - 1)) :
                          /\ Cardinality(S) <= MaxPlaced
                          /\ \E f \in [S -> (0..((W \div tile_w) - 1)) \X
                                            (0..((H \div tile_h) - 1))] :
                             \E xt \in {x_tile(tile_w, W)} :
                             \E tiles \in {Unpack(gw, gh, f)} :
                                 /\ status' = IF rgba8 THEN "inited" ELSE "panic"
                                 /\ game' = [inited |-> rgba8, rgba8 |-> rgba8,
                                             tile_width |-> tile_w,
                                             tile_height |-> tile_h,
                                             x_tile |-> xt,
                                             grid_cells_x |-> gw,
                                             grid_cells_y |-> gh,
                                             tiles |-> tiles,
                                             pi |-> placement(tiles, gw, gh, xt)]
    /\ UNCHANGED <<debug, policy, nwrites, gen, loop>>

\* Game::init when the project or the level file cannot be read: the error
\* is returned
GameInitError ==
    /\ status = "start"
    /\ status' = "error"
    /\ last' = [NoOp EXCEPT !.op = "init"]
    /\ UNCHANGED <<debug, tex, policy, image, reads, nwrites, call, gen, loop, game>>

NextMain == LoadTexture \/ LoadTextureError \/ GameInit \/ GameInitError

SpecMain == Init /\ [][NextMain]_vars

-----------------------------------------------------------------------------
(* The size functions applied to single inputs, large ones included *)

\* 2^24 - 1, 2^24, 2^24 + 1, 2^25 - 1, 2^25: around the precision of f32
BigDims == {300, 16777215, 16777216, 16777217, 33554431, 33554432}

FnSizes ==
    ((0..MaxDim) \X (0..MaxDim)) \cup {<<300, 150>>, <<150, 300>>}
    \cup {<<b, 1>> : b \in BigDims} \cup {<<1, b>> : b \in BigDims}

FnPolicies == {MipNone, MipAll} \cup {MipSome(n) : n \in 0..MaxLevelArg}

\* TextureData::new(width, height, depth, mipmaps): val is the level count
\* stored, len the length of the buffer allocated (the buffer itself is
\* not built here: it would hold up to 2^27 pixels)
CallNew ==
    /\ call.fn = "none"
    /\ \E sz \in FnSizes, depth \in 0..MaxDepth, mipmaps \in FnPolicies :
          \E m \in {NewMipmaps(sz[1], sz[2], mipmaps, debug)} :
              call' = [NoCall EXCEPT
                       !.fn = "new", !.width = sz[1], !.height = sz[2],
                       !.depth = depth, !.policy = mipmaps,
                       !.ok = ~NewPanics(sz[1], sz[2], mipmaps, debug),
                       !.val = m.val,
                       !.len = IF NewPanics(sz[1], sz[2], mipmaps, debug) THEN 0
                               ELSE pixels_len(sz[1], sz[2], depth, m.val)]
    /\ UNCHANGED <<debug, status, tex, policy, image, reads, last, nwrites, gen, loop, game>>

\* mipmapped_width(level) of a buffer constructed by new; ok = FALSE is the
\* shift overflow panic of a checked build
CallMipmappedWidth ==
    /\ call.fn = "none"
    /\ \E sz \in FnSizes, level \in 0..MaxLevelArg :
          \E n \in {new(sz[1], sz[2], 0, MipNone, debug)} :
              call' = [NoCall EXCEPT
                       !.fn = "mipmapped_width", !.width = sz[1], !.height = sz[2],
                       !.level = level,
                       !.ok = n.ok /\ ~(debug /\ shl_overflow(level)),
                       !.val = mipmapped_width(n.tex, level)]
    /\ UNCHANGED <<debug, status, tex, policy, image, reads, last, nwrites, gen, loop, game>>

\* mipmapped_height(level) of a buffer constructed by new
CallMipmappedHeight ==
    /\ call.fn = "none"
    /\ \E sz \in FnSizes, level \in 0..MaxLevelArg :
          \E n \in {new(sz[1], sz[2], 0, MipNone, debug)} :
              call' = [NoCall EXCEPT
                       !.fn = "mipmapped_height", !.width = sz[1], !.height = sz[2],
                       !.level = level,
                       !.ok = n.ok /\ ~(debug /\ shl_overflow(level)),
                       !.val = mipmapped_height(n.tex, level)]
    /\ UNCHANGED <<debug, status, tex, policy, image, reads, last, nwrites, gen, loop, game>>

\* size_of::<T>() of the pixel types tried: (), u8, u16 and [u8; 4]
TypeSizes == {0, 1, 2, 4}

\* a buffer of pixel type T whose every element the caller has written:
\* byte b of element i holds i * size_of::<T>() + b
Written(t, size_of_T) ==
    [t EXCEPT !.pixels = [i \in DOMAIN t.pixels |->
                            [b \in 1..size_of_T |-> (i * size_of_T + b - 1) % 256]]]

\* as_bytes() of a buffer of pixel type T; ok = FALSE is a panic
CallAsBytes ==
    /\ call.fn = "none"
    /\ \E width \in 0..MaxDim, height \in 0..MaxDim, depth \in 0..MaxDepth,
          mipmaps \in Policies, size_of_T \in TypeSizes :
          \E n \in {new(width, height, depth, mipmaps, debug)} :
              /\ n.ok
              /\ \E t \in {Written(n.tex, size_of_T)} :
                 \E r \in {as_bytes(t, size_of_T)} :
                    /\ tex' = t
                    /\ call' = [NoCall EXCEPT
                                  !.fn = "as_bytes", !.width = width,
                                  !.height = height, !.depth = depth,
                                  !.policy = mipmaps, !.size_of_T = size_of_T,
                                  !.ok = r.ok, !.bytes = r.val]
    /\ UNCHANGED <<debug, status, policy, image, reads, last, nwrites, gen, loop, game>>

\* to_texture(device, queue, format, usage) of a buffer of pixel type T:
\* desc and bytes are the arguments of create_texture_with_data
CallToTexture ==
    /\ call.fn = "none"
    /\ \E width \in 0..MaxDim, height \in 0..MaxDim, depth \in 0..MaxDepth,
          mipmaps \in Policies, size_of_T \in TypeSizes :
          \E n \in {new(width, height, depth, mipmaps, debug)} :
              /\ n.ok
              /\ \E t \in {Written(n.tex, size_of_T)} :
                 \E r \in {to_texture(t, size_of_T)} :
                    /\ tex' = t
                    /\ call' = [NoCall EXCEPT
                                  !.fn = "to_texture", !.width = width,
                                  !.height = height, !.depth = depth,
                                  !.policy = mipmaps, !.size_of_T = size_of_T,
                                  !.ok = r.ok, !.bytes = r.data, !.desc = r.desc]
    /\ UNCHANGED <<debug, status, policy, image, reads, last, nwrites, gen, loop, game>>

NextFn ==
    CallNew \/ CallMipmappedWidth \/ CallMipmappedHeight \/ CallAsBytes \/ CallToTexture

SpecFn == Init /\ [][NextFn]_vars

-----------------------------------------------------------------------------
(* The layout as the specification states it, written without the code's   *)
(* helpers: level l of a layer is max(1, width >> l) x max(1, height >> l)   *)

ShiftedDim(d, l) == Max(1, IF l > 30 THEN 0 ELSE d \div Pow2(l))

LevelPixels(t, l) == ShiftedDim(t.width, l) * ShiftedDim(t.height, l)

\* sum of LevelPixels over the levels 0..n-1
RECURSIVE LevelsBelow(_, _)
LevelsBelow(t, n) == IF n <= 0 THEN 0 ELSE LevelsBelow(t, n - 1) + LevelPixels(t, n - 1)

FlatIndex(t, x, y, layer, level) ==
    layer * LevelsBelow(t, t.mipmaps) + LevelsBelow(t, level)
    + y * ShiftedDim(t.width, level) + x

InRange(t, x, y, layer, level) ==
    /\ level < t.mipmaps
    /\ layer < t.depth
    /\ x < ShiftedDim(t.width, level)
    /\ y < ShiftedDim(t.height, level)

\* all in-range coordinates <<x, y, layer, level>> of t
Coords(t) ==
    { c \in (0..(Max(t.width, 1) - 1)) \X (0..(Max(t.height, 1) - 1))
            \X (0..(t.depth - 1)) \X (0..(t.mipmaps - 1)) :
        InRange(t, c[1], c[2], c[3], c[4]) }

PixelAt(t, x, y, layer, level) == t.pixels[FlatIndex(t, x, y, layer, level)]

\* 1 + floor(log2(max(width, height))), and 1 for an empty image
MaxLevelsExact(width, height) ==
    IF Max(width, height) = 0 THEN 1 ELSE 1 + FloorLog2(Max(width, height))

FullPyramid(t) == t.mipmaps = MaxLevelsExact(t.width, t.height)

-----------------------------------------------------------------------------
(* C1 *)

C1_Length == status = "built" => PixLen(tex) = tex.depth * LevelsBelow(tex, tex.mipmaps)

C1_Frame ==
    status = "built" =>
        /\ tex'.width = tex.width
        /\ tex'.height = tex.height
        /\ tex'.depth = tex.depth
        /\ tex'.mipmaps = tex.mipmaps
        /\ PixLen(tex') = PixLen(tex)

\* C1: after new, and after any later get_pixel_mut writes and
\* generate_mipmaps calls, the buffer length is depth times the sum over the
\* stored levels of max(1, width >> l) * max(1, height >> l), and no
\* operation changes width, height, depth, mipmaps or the buffer length.
C1_LengthInvariant == [](C1_Length) /\ [][C1_Frame]_vars

\* a 2 x 2 buffer of two layers and two levels, written once and filtered
C1_Witness ==
    /\ status = "built"
    /\ last.op = "generate_mipmaps"
    /\ nwrites = 1
    /\ tex.width = 2 /\ tex.height = 2 /\ tex.depth = 2 /\ tex.mipmaps = 2
    /\ PixLen(tex) = 10

-----------------------------------------------------------------------------
(* C2 *)

\* C2: for every in-range (x, y, layer, level), get_pixel and get_pixel_mut
\* address the element layer * per_layer_size + mip_base(level)
\* + y * mipmapped_width(level) + x, which is below the buffer length.
C2_FlatIndex ==
    status = "built" =>
        \A c \in Coords(tex) :
            /\ get_pixel(tex, c[1], c[2], c[3], c[4], debug)
                 = [ok |-> TRUE, idx |-> FlatIndex(tex, c[1], c[2], c[3], c[4])]
            /\ get_pixel_mut(tex, c[1], c[2], c[3], c[4], debug)
                 = [ok |-> TRUE, idx |-> FlatIndex(tex, c[1], c[2], c[3], c[4])]
            /\ FlatIndex(tex, c[1], c[2], c[3], c[4]) < PixLen(tex)

\* a write to pixel (0, 0) of level 1 of layer 1 of a 3 x 3 buffer lands on
\* element 10 + 9
C2_Witness ==
    /\ status = "built"
    /\ last.op = "get_pixel_mut"
    /\ <<last.x, last.y, last.layer, last.level>> = <<0, 0, 1, 1>>
    /\ tex.width = 3 /\ tex.height = 3 /\ tex.depth = 2 /\ tex.mipmaps = 2
    /\ tex.pixels[19] = last.value

-----------------------------------------------------------------------------
(* C3 *)

\* truncating mean of the four pixels, per channel
TruncMean(a, b, c, d) == [i \in 1..4 |-> (a[i] + b[i] + c[i] + d[i]) \div 4]

\* the level's pixel at (x, y); where the level is only one pixel wide or
\* high the coordinate is clamped into it, the replicated sampling the
\* specification accepts at the last levels
SourcePixel(t, x, y, layer, level) ==
    PixelAt(t, IF x < ShiftedDim(t.width, level) THEN x ELSE ShiftedDim(t.width, level) - 1,
               IF y < ShiftedDim(t.height, level) THEN y ELSE ShiftedDim(t.height, level) - 1,
               layer, level)

\* C3: after generate_mipmaps on a buffer with the full pyramid, every pixel
\* (x, y) of every level m > 0 of every layer is the truncating per-channel
\* mean of the pixels (2x,2y), (2x+1,2y), (2x+1,2y+1), (2x,2y+1) of level
\* m - 1 of the same layer.
C3_MipmapInvariant ==
    (status = "built" /\ last.op \in {"generate_mipmaps", "parse_tileset"}
        /\ policy = MipAll /\ tex.width >= 1 /\ tex.height >= 1) =>
        \A c \in Coords(tex) :
            c[4] > 0 =>
                PixelAt(tex, c[1], c[2], c[3], c[4])
                  = TruncMean(SourcePixel(tex, 2 * c[1], 2 * c[2], c[3], c[4] - 1),
                              SourcePixel(tex, 2 * c[1] + 1, 2 * c[2], c[3], c[4] - 1),
                              SourcePixel(tex, 2 * c[1] + 1, 2 * c[2] + 1, c[3], c[4] - 1),
                              SourcePixel(tex, 2 * c[1], 2 * c[2] + 1, c[3], c[4] - 1))

-----------------------------------------------------------------------------
(* C4 *)

\* C4: for every width >= 1 and height >= 1, generate_mipmaps on a buffer
\* with the full pyramid runs to completion and every source read lies
\* inside its level.
C4_GenerateCompletes ==
    (last.op = "generate_mipmaps" /\ policy = MipAll
        /\ tex.width >= 1 /\ tex.height >= 1) =>
        (status = "built" /\ ~last.oor)

-----------------------------------------------------------------------------
(* C5 *)

\* C5: parse_tileset on a W x H image with tiles tw x th returns a buffer
\* with width tw, height th, depth (W div tw) * (H div th), the full
\* pyramid, depth_x() = W div tw and depth_y() = H div th, whose level-0
\* pixel (px, py) of layer gx + (W div tw) * gy is the source pixel
\* (gx * tw + px, gy * th + py).
C5_ParseTileset ==
    (last.op = "parse_tileset" /\ status = "built") =>
        LET ex == image.width \div last.tile_w
            ey == image.height \div last.tile_h
        IN  /\ tex.width = last.tile_w
            /\ tex.height = last.tile_h
            /\ tex.depth = ex * ey
            /\ FullPyramid(tex)
            /\ depth_x(tex) = [some |-> TRUE, val |-> ex]
            /\ depth_y(tex) = [ok |-> TRUE, some |-> TRUE, val |-> ey]
            /\ \A gx \in 0..(ex - 1), gy \in 0..(ey - 1),
                  px \in 0..(last.tile_w - 1), py \in 0..(last.tile_h - 1) :
                    PixelAt(tex, px, py, gx + ex * gy, 0)
                      = image.pixels[<<gx * last.tile_w + px, gy * last.tile_h + py>>]

-----------------------------------------------------------------------------
(* C6 *)

\* C6: when the image dimensions are not multiples of the tile size,
\* parse_tileset never reads a source pixel with x >= W or y >= H, reads
\* nothing of a partial trailing tile, and emits (W div tw) * (H div th)
\* layers.
C6_NoPartialTiles ==
    (last.op = "parse_tileset" /\ last.tile_w >= 1 /\ last.tile_h >= 1
        /\ (image.width % last.tile_w # 0 \/ image.height % last.tile_h # 0)) =>
        /\ \A c \in reads :
              /\ c[1] < image.width /\ c[2] < image.height
              /\ c[1] < (image.width \div last.tile_w) * last.tile_w
              /\ c[2] < (image.height \div last.tile_h) * last.tile_h
        /\ status = "built" =>
              tex.depth = (image.width \div last.tile_w) * (image.height \div last.tile_h)

\* a 3 x 4 image cut in 2 x 2 tiles: one column of tiles, two layers
C6_Witness ==
    /\ last.op = "parse_tileset"
    /\ status = "built"
    /\ image.width = 3 /\ image.height = 4
    /\ last.tile_w = 2 /\ last.tile_h = 2
    /\ tex.depth = 2
    /\ reads = (0..1) \X (0..3)

-----------------------------------------------------------------------------
(* C7 *)

\* C7: a value written through get_pixel_mut(x, y, layer, level) at an
\* in-range coordinate is the value get_pixel(x, y, layer, level) reads.
C7_WriteThenRead ==
    (last.op = "get_pixel_mut" /\ status = "built"
        /\ InRange(tex, last.x, last.y, last.layer, last.level)) =>
        LET g == get_pixel(tex, last.x, last.y, last.layer, last.level, debug)
        IN  g.ok /\ tex.pixels[g.idx] = last.value

\* a write to pixel (1, 2) of a 2 x 3 buffer
C7_Witness ==
    /\ last.op = "get_pixel_mut"
    /\ status = "built"
    /\ tex.width = 2 /\ tex.height = 3
    /\ <<last.x, last.y, last.layer, last.level>> = <<1, 2, 0, 0>>
    /\ last.value = <<255, 3, 128, 6>>
    /\ tex.pixels[get_pixel(tex, 1, 2, 0, 0, debug).idx] = <<255, 3, 128, 6>>

-----------------------------------------------------------------------------
(* C8 *)

\* C8: new stores 1 level for MipMaps::None, n for MipMaps::Some(n) and
\* 1 + floor(log2(max(width, height))) for MipMaps::All.
C8_LevelCount ==
    (call.fn = "new" /\ call.ok /\ Max(call.width, call.height) >= 1) =>
        call.val = CASE call.policy.kind = "None" -> 1
                     [] call.policy.kind = "Some" -> call.policy.levels
                     [] OTHER -> MaxLevelsExact(call.width, call.height)

-----------------------------------------------------------------------------
(* C9 *)

\* C9: new with MipMaps::Some(n), n outside [1, max_levels), does not
\* complete: no buffer is returned.
C9_ExplicitOutOfRange ==
    (call.fn = "new" /\ call.policy.kind = "Some"
        /\ Max(call.width, call.height) >= 1
        /\ ~(1 <= call.policy.levels
              /\ call.policy.levels < MaxLevelsExact(call.width, call.height))) =>
        ~call.ok

-----------------------------------------------------------------------------
(* C10 *)

\* the dimension the called accessor shifts
CalledDim == IF call.fn = "mipmapped_width" THEN call.width ELSE call.height

\* C10 as stated: for every buffer constructed by new and every level,
\* mipmapped_width(0) = width, mipmapped_width(level) >= 1,
\* mipmapped_width(level + 1) <= mipmapped_width(level) and
\* mipmapped_width(level) = max(1, width >> level); the same for height.
C10_MipmappedSizeAnyInput ==
    call.fn \in {"mipmapped_width", "mipmapped_height"} =>
        /\ call.ok
        /\ call.level = 0 => call.val = CalledDim
        /\ call.val >= 1
        /\ mipmaped_size(CalledDim, call.level + 1) <= call.val
        /\ call.val = ShiftedDim(CalledDim, call.level)

\* C10 amended: the same for a dimension >= 1 and the levels below 32.
C10_MipmappedSize ==
    (call.fn \in {"mipmapped_width", "mipmapped_height"}
        /\ CalledDim >= 1 /\ call.level < 32) =>
        /\ call.ok
        /\ call.level = 0 => call.val = CalledDim
        /\ call.val >= 1
        /\ call.level + 1 < 32 => mipmaped_size(CalledDim, call.level + 1) <= call.val
        /\ call.val = ShiftedDim(CalledDim, call.level)

\* level 2 of width 3 is clamped to 1
C10_Witness ==
    /\ call.fn = "mipmapped_width"
    /\ call.ok
    /\ call.width = 3 /\ call.level = 2
    /\ call.val = 1

-----------------------------------------------------------------------------
(* C11 *)

\* C11: a get_pixel_mut call with x >= mipmapped_width(level),
\* y >= mipmapped_height(level), layer >= depth or level >= mipmaps fails
\* (assertion or panic); it never resolves to an element of the buffer.
C11_BoundsChecked ==
    (last.op = "get_pixel_mut" /\ tex.width >= 1 /\ tex.height >= 1
        /\ ~InRange(tex, last.x, last.y, last.layer, last.level)) =>
        status = "panic"

-----------------------------------------------------------------------------
(* C12 *)

\* C12: whenever depth_divisor is present (after parse_tileset on any image
\* and tile size) depth_y() returns depth / depth_x() without failing and
\* depth_x() * depth_y() = depth; when it is absent (after new) depth_x()
\* and depth_y() are both absent.
C12_DepthDivisor ==
    status = "built" =>
        /\ tex.depth_divisor.some <=> image # NoImage
        /\ IF tex.depth_divisor.some
           THEN /\ depth_x(tex).some
                /\ depth_y(tex).ok
                /\ depth_y(tex).some
                /\ depth_x(tex).val * depth_y(tex).val = tex.depth
           ELSE /\ ~depth_x(tex).some
                /\ depth_y(tex) = [ok |-> TRUE, some |-> FALSE, val |-> 0]

-----------------------------------------------------------------------------
(* C13 *)

\* the byte view has PixLen * size_of::<T>() bytes and byte b of the element
\* at (x, y, layer, level) is byte FlatIndex * size_of::<T>() + b of the view
BytesInStorageOrder ==
    /\ call.ok
    /\ Len(call.bytes) = PixLen(tex) * call.size_of_T
    /\ \A i \in DOMAIN tex.pixels : \A b \in 1..call.size_of_T :
          call.bytes[i * call.size_of_T + b] = tex.pixels[i][b]
    /\ \A c \in Coords(tex) : \A b \in 1..call.size_of_T :
          call.bytes[FlatIndex(tex, c[1], c[2], c[3], c[4]) * call.size_of_T + b]
            = tex.pixels[get_pixel(tex, c[1], c[2], c[3], c[4], debug).idx][b]

\* C13 as stated: for any pixel type T, as_bytes() returns a view of exactly
\* pixels.length * size_of(T) bytes covering the whole buffer in storage
\* order.
C13_AsBytesAnyType == call.fn = "as_bytes" => BytesInStorageOrder

\* C13 amended: the same for any pixel type T of non-zero size.
C13_AsBytes ==
    (call.fn = "as_bytes" /\ call.size_of_T >= 1) => BytesInStorageOrder

\* a 2 x 2 buffer of two layers of 2-byte pixels: 16 bytes, layer 1 from
\* byte 8 on
C13_Witness ==
    /\ call.fn = "as_bytes"
    /\ call.ok
    /\ call.size_of_T = 2
    /\ tex.width = 2 /\ tex.height = 2 /\ tex.depth = 2 /\ tex.mipmaps = 1
    /\ Len(call.bytes) = 16
    /\ call.bytes[9] = tex.pixels[4][1]

-----------------------------------------------------------------------------
(* C14 *)

\* C14: immediately after new, every element of the buffer, at every layer
\* and every mipmap level, is the all-zero pixel.
C14_ZeroInitialised ==
    (last.op = "new" /\ status = "built") =>
        /\ \A i \in DOMAIN tex.pixels : tex.pixels[i] = Zeroed
        /\ \A c \in Coords(tex) :
              tex.pixels[get_pixel(tex, c[1], c[2], c[3], c[4], debug).idx] = Zeroed

\* a 3 x 2 buffer of two layers with two levels: 14 zero pixels
C14_Witness ==
    /\ last.op = "new"
    /\ status = "built"
    /\ tex.width = 3 /\ tex.height = 2 /\ tex.depth = 2 /\ tex.mipmaps = 2
    /\ PixLen(tex) = 14
    /\ tex.pixels[13] = Zeroed

-----------------------------------------------------------------------------
(* C15 *)

\* the descriptor carries width(), height(), depth() and mipmaps(), and the
\* data is the complete as_bytes() view, as long as the descriptor implies
UploadMatchesDescriptor ==
    /\ call.ok
    /\ call.desc.width = tex.width
    /\ call.desc.height = tex.height
    /\ call.desc.depth = tex.depth
    /\ call.desc.mip_level_count = tex.mipmaps
    /\ call.bytes = as_bytes(tex, call.size_of_T).val
    /\ Len(call.bytes)
         = call.desc.depth
           * LevelsBelow([width |-> call.desc.width, height |-> call.desc.height],
                         call.desc.mip_level_count)
           * call.size_of_T

\* C15 as stated: to_texture creates one texture whose descriptor has
\* width(), height(), depth() layers and mipmaps() levels and uploads the
\* complete as_bytes() view, whose length is the byte size the descriptor
\* implies.
C15_ToTextureAnyType == call.fn = "to_texture" => UploadMatchesDescriptor

\* C15 amended: the same for a pixel type of non-zero size.
C15_ToTexture ==
    (call.fn = "to_texture" /\ call.size_of_T >= 1) => UploadMatchesDescriptor

\* a 3 x 3 buffer of two layers and two levels of 4-byte pixels: 80 bytes
C15_Witness ==
    /\ call.fn = "to_texture"
    /\ call.ok
    /\ call.size_of_T = 4
    /\ call.desc.width = 3 /\ call.desc.height = 3 /\ call.desc.depth = 2
    /\ call.desc.mip_level_count = 2
    /\ Len(call.bytes) = 80

-----------------------------------------------------------------------------
(* C17 *)

\* the slice [off, off + len) lies before the slice b
Before(a, b) == a.off + a.len <= b.off

\* C17: for every layer < depth and level < mipmaps, get_mipmap(layer,
\* level) is the range of length mipmapped_width(level) *
\* mipmapped_height(level) starting at layer * per_layer_size +
\* mip_base(level); the mipmap slices of a layer are pairwise disjoint and
\* follow each other from the start to the end of get_layer(layer); the
\* layers follow each other from the start to the end of the buffer.
C17_SlicesPartition ==
    status = "built" =>
        /\ tex.depth * layer_size(tex) = PixLen(tex)
        /\ \A layer \in 0..(tex.depth - 1) :
              LET L == get_layer(tex, layer, debug)
              IN  /\ L = [ok |-> TRUE, off |-> layer * LevelsBelow(tex, tex.mipmaps),
                          len |-> LevelsBelow(tex, tex.mipmaps)]
                  /\ get_layer_mut(tex, layer, debug) = L
                  /\ layer + 1 < tex.depth =>
                        get_layer(tex, layer + 1, debug).off = L.off + L.len
                  /\ tex.mipmaps = 0 => L.len = 0
                  /\ \A level \in 0..(tex.mipmaps - 1) :
                        LET M == get_mipmap(tex, layer, level, debug)
                        IN  /\ M = [ok |-> TRUE,
                                    off |-> layer * LevelsBelow(tex, tex.mipmaps)
                                            + LevelsBelow(tex, level),
                                    len |-> LevelPixels(tex, level)]
                            /\ get_mipmap_mut(tex, layer, level, debug) = M
                            /\ level = 0 => M.off = L.off
                            /\ level + 1 < tex.mipmaps =>
                                  get_mipmap(tex, layer, level + 1, debug).off
                                    = M.off + M.len
                            /\ level + 1 = tex.mipmaps => M.off + M.len = L.off + L.len
                            /\ \A other \in 0..(tex.mipmaps - 1) :
                                  other > level =>
                                      Before(M, get_mipmap(tex, layer, other, debug))

\* level 1 of layer 1 of a written 3 x 3 buffer of two layers is the single
\* element 19, the last of the buffer
C17_Witness ==
    /\ status = "built"
    /\ nwrites = 1
    /\ tex.width = 3 /\ tex.height = 3 /\ tex.depth = 2 /\ tex.mipmaps = 2
    /\ get_mipmap(tex, 1, 1, debug) = [ok |-> TRUE, off |-> 19, len |-> 1]
    /\ get_layer(tex, 1, debug) = [ok |-> TRUE, off |-> 10, len |-> 10]
    /\ PixLen(tex) = 20

-----------------------------------------------------------------------------
(* C20 *)

\* the elements addressed by the in-range coordinates of t
Addressed(t, dbg) ==
    { get_pixel(t, c[1], c[2], c[3], c[4], dbg).idx : c \in Coords(t) }

C20_Distinct ==
    status = "built" =>
        /\ \A c \in Coords(tex) :
              /\ get_pixel(tex, c[1], c[2], c[3], c[4], debug).ok
              /\ get_pixel_mut(tex, c[1], c[2], c[3], c[4], debug)
                   = get_pixel(tex, c[1], c[2], c[3], c[4], debug)
        /\ Cardinality(Addressed(tex, debug)) = Cardinality(Coords(tex))

\* a completed write through get_pixel_mut at an in-range coordinate
\* leaves the value get_pixel reads at every other in-range coordinate
C20_Frame ==
    (status = "built" /\ status' = "built" /\ nwrites' = nwrites + 1
        /\ InRange(tex, last'.x, last'.y, last'.layer, last'.level)) =>
        \A c \in Coords(tex) :
            c # <<last'.x, last'.y, last'.layer, last'.level>> =>
                tex'.pixels[get_pixel(tex', c[1], c[2], c[3], c[4], debug).idx]
                  = tex.pixels[get_pixel(tex, c[1], c[2], c[3], c[4], debug).idx]

\* C20: two different in-range coordinates (x, y, layer, level) never
\* address the same buffer element, so a write through get_pixel_mut at one
\* coordinate leaves the value read by get_pixel at every other in-range
\* coordinate unchanged.
C20_Injective == [](C20_Distinct) /\ [][C20_Frame]_vars

\* after a write to (1, 0) of layer 0 of a 2 x 2 buffer, (0, 1) of layer 0
\* and (1, 0) of layer 1 still hold zero
C20_Witness ==
    /\ status = "built"
    /\ last.op = "get_pixel_mut"
    /\ <<last.x, last.y, last.layer, last.level>> = <<1, 0, 0, 0>>
    /\ last.value = <<255, 3, 128, 6>>
    /\ tex.width = 2 /\ tex.height = 2 /\ tex.depth = 2
    /\ tex.pixels[get_pixel(tex, 1, 0, 0, 0, debug).idx] = <<255, 3, 128, 6>>
    /\ tex.pixels[get_pixel(tex, 0, 1, 0, 0, debug).idx] = Zeroed
    /\ tex.pixels[get_pixel(tex, 1, 0, 1, 0, debug).idx] = Zeroed

-----------------------------------------------------------------------------
(* C18 *)

\* C18: load_texture of main.rs with any tile size tw x th stores each
\* tile in row-major order: every write through get_pixel_mut(px, py,
\* layer) succeeds, and source pixel (gx*tw + px, gy*th + py) lands on
\* element layer*tw*th + py*tw + px with layer = gx + expand_x*gy, of the
\* buffer and of the uploaded data.
C18_LoadTextureRowMajor ==
    (last.op = "load_texture" /\ status # "error"
        /\ last.tile_w >= 1 /\ last.tile_h >= 1) =>
        LET tw == last.tile_w
            th == last.tile_h
            ex == image.width \div tw
            ey == image.height \div th
        IN  /\ status = "loaded"
            /\ call.desc.width = tw /\ call.desc.height = th
            /\ call.desc.depth = ex * ey
            /\ \A gx \in 0..(ex - 1), gy \in 0..(ey - 1),
                  px \in 0..(tw - 1), py \in 0..(th - 1) :
                  LET e == (gx + ex * gy) * tw * th + py * tw + px
                      v == image.pixels[<<gx * tw + px, gy * th + py>>]
                  IN  /\ tex.pixels[e] = v
                      /\ \A b \in 1..4 : call.bytes[4 * e + b] = v[b]

-----------------------------------------------------------------------------
(* C16 *)

\* the elements of level `level` of layer `layer`
LevelRange(t, layer, level) ==
    { layer * LevelsBelow(t, t.mipmaps) + LevelsBelow(t, level) + i :
        i \in 0..(LevelPixels(t, level) - 1) }

ParAllDone == \A layer \in DOMAIN gen.pc : gen.pc[layer].phase = "done"

\* the last access made: a read while producing level m of layer L touches
\* level m - 1 of layer L only, a write level m of layer L only, m >= 1
C16_Accesses ==
    gen.running =>
        /\ gen.acc.kind = "read" =>
              /\ gen.acc.mipmap >= 1
              /\ gen.acc.idxs \subseteq LevelRange(tex, gen.acc.layer, gen.acc.mipmap - 1)
        /\ gen.acc.kind = "write" =>
              /\ gen.acc.mipmap >= 1
              /\ gen.acc.idxs \subseteq LevelRange(tex, gen.acc.layer, gen.acc.mipmap)

\* every interleaving that completes ends with the buffer of the sequential
\* loop, and an interleaving fails only where the sequential loop fails
C16_SameAsSequential ==
    gen.running =>
        /\ (status = "built" /\ ParAllDone) =>
              /\ generate_mipmaps(gen.tex0, debug).ok
              /\ generate_mipmaps(gen.tex0, debug).tex = tex
        /\ status = "panic" => ~generate_mipmaps(gen.tex0, debug).ok

\* no step changes a level-0 pixel of any layer
C16_Level0Frame ==
    gen.running =>
        \A layer \in 0..(tex.depth - 1) :
            \A i \in LevelRange(tex, layer, 0) : tex'.pixels[i] = tex.pixels[i]

\* C16: generate_mipmaps never writes a level-0 pixel, and while producing
\* level m of layer L it reads only level m-1 pixels of layer L and writes
\* only level m pixels of layer L; level 0 of every layer is unchanged, and
\* running the per-layer generation in any order or interleaving yields the
\* same final buffer as the sequential loop.
C16_GenerateFrame ==
    [](C16_Accesses /\ C16_SameAsSequential) /\ [][C16_Level0Frame]_vars

\* a 4 x 4 buffer of two layers and three levels, layer 1 finished before
\* layer 0: the last write is that of level 2 of layer 0
C16_Witness ==
    /\ gen.running
    /\ status = "built"
    /\ ParAllDone
    /\ tex.width = 4 /\ tex.height = 4 /\ tex.depth = 2 /\ tex.mipmaps = 3
    /\ gen.acc = [kind |-> "write", layer |-> 0, mipmap |-> 2, idxs |-> {20}]
    /\ tex # gen.tex0
    /\ tex = generate_mipmaps(gen.tex0, debug).tex

-----------------------------------------------------------------------------
(* C19 *)

\* C19: the dt passed to game.update on a RedrawRequested event never
\* includes time that elapsed while the window was unfocused or the
\* application suspended, for every order of Focused, Suspended, Resumed,
\* MainEventsCleared and RedrawRequested events.
C19_TimeFrozen == loop.event = "RedrawRequested" => loop.dt_away = 0

-----------------------------------------------------------------------------
(* C21: the placement buffer of init against the layers of load_texture *)

\* the layer load_texture gave the tile at (cx, cy) of the tileset:
\* cx + expand_x * cy with expand_x = image_width div tile_width
LayerOfTile(coords) ==
    coords[1] + (image.width \div game.tile_width) * coords[2]

\* the cell of the placement buffer a tile of the level belongs to
CellOf(tile) == tile.grid_position[1] + tile.grid_position[2] * game.grid_cells_x

\* C21: after init, for every image width, tile width and placed tile (cx, cy)
\* the value in the tile's cell of the placement buffer minus 1 is the layer
\* load_texture assigned to that tile, and every cell without a tile holds 0.
C21_PlacementMatchesLayers ==
    game.inited =>
        \A k \in 1..Len(game.tiles) :
            IF game.tiles[k].grid_coords = NoCoords
            THEN game.pi[CellOf(game.tiles[k])] = 0
            ELSE game.pi[CellOf(game.tiles[k])] - 1 = LayerOfTile(game.tiles[k].grid_coords)

-----------------------------------------------------------------------------
(* C22: window.request_redraw() in the event loop of run *)

\* a step in which request_redraw is called
RequestRedrawCalled == loop'.requests = loop.requests + 1

\* C22: request_redraw is called only while handling MainEventsCleared with
\* the window focused and the application resumed, never while
\* is_redraw_requested is already true, and at most once between two
\* consecutive RedrawRequested events handled for this window, for every
\* order of events.
C22_CallSite ==
    RequestRedrawCalled =>
        /\ loop'.event = "MainEventsCleared" /\ loop'.called
        /\ loop.is_focused /\ loop.is_resumed
        /\ ~loop.is_redraw_requested
        /\ loop'.is_redraw_requested

C22_RequestOnce == [](loop.requests <= 1) /\ [][C22_CallSite]_vars

\* one call since the last frame, and a further MainEventsCleared, handled
\* focused and resumed, that did not call again
C22_Witness ==
    /\ loop.requests = 1
    /\ loop.event = "MainEventsCleared"
    /\ ~loop.called
    /\ loop.is_focused /\ loop.is_resumed /\ loop.is_redraw_requested
    /\ loop.dt > 0

=============================================================================
